---- MODULE Spec2Model ----
(***************************************************************************)
(* Model of make.py of RoboExplore: the supervised command runner          *)
(* call_cli and the staleness decision of build_typescript.                *)
(*                                                                         *)
(* Time is counted in whole seconds from the moment the child is started.  *)
(* A wait on the child lasts PollInterval seconds, so poll ticks fall on   *)
(* even seconds.  The limits max_hang and max_time are odd numbers of      *)
(* seconds, so that no deadline coincides with a poll tick.  exitAt = k    *)
(* says that the child exits during the second that ends at k, which is    *)
(* before a poll tick that falls on k.                                     *)
(***************************************************************************)
EXTENDS Integers, Sequences, FiniteSets, TLC

\* ---------------------------------------------------------------- bounds
MaxHangK == 1      \* max_hang ranges over the odd numbers 1 .. 2*MaxHangK+1
MaxTimeK == 2      \* max_time ranges over the odd numbers 1 .. 2*MaxTimeK+1
MaxExit  == 4      \* the child exits at 1 .. MaxExit, or never
MaxOut   == 2      \* characters the child writes, both streams together
MaxMtime == 2      \* modification times range over 1 .. MaxMtime

\* ------------------------------------------------------------- constants
PollInterval == 2  \* process.communicate(timeout=2.0), make.py line 56

None   == <<>>     \* Python's None; a value x that is present is <<x>>
Never  == 0        \* exitAt of a child that does not exit by itself
NL     == "\n"
\* The child writes ASCII only, on which decode("UTF-8") and the text mode of
\* the final communicate change nothing.
Chars  == {"a", NL}
Streams == {"out", "err"}
Absent == 0        \* the modification time of a file that does not exist

\* The source tree: a directory, a subdirectory and one nested in that; each
\* holds at most one file, named by the directory it is in.
Root == "typescript"
Sub  == "typescript/sub"
Deep == "typescript/sub/deep"
Dirs == {Root, Sub, Deep}
Children(d) == IF d = Root THEN <<Sub>> ELSE IF d = Sub THEN <<Deep>> ELSE <<>>
TreeShapes  == {{Root}, {Root, Sub}, {Root, Sub, Deep}}
Mtimes      == 1..MaxMtime

HangLimits  == {2 * k + 1 : k \in 0..MaxHangK}
TimeLimits  == {2 * k + 1 : k \in 0..MaxTimeK}
ExitCodes   == {0, 2}
Expectations == {None, <<0>>}

VARIABLES
  \* the invocation (arguments of call_cli)
  max_hang, max_time, expected_return_code,
  \* the child process
  exitAt,        \* when the child exits by itself (Never: it does not)
  exitCode,      \* the exit code it exits with
  written,       \* what it wrote so far, in arrival order: <<stream, char>>
  proc,          \* "running", "exited" (natural completion) or "killed"
  \* locals of call_cli
  now, absolute_end, hang_end,
  last_stdout_len, last_stderr_len,
  printed_stdout_lines, printed_stderr_lines,
  done,
  returncode,    \* process.returncode
  outcome,       \* "running", "returned" or the name of the exception raised
  exc_args,      \* the arguments the exception was built with
  console,       \* what print() wrote: <<tag, line, batch>>
  tickLog,       \* per poll tick: the time and the true lengths of the streams
  \* the file system build_typescript reads
  dirs,          \* the directories that exist
  files,         \* per directory the mtime of its file, Absent if it has none
  outputMtime,   \* the mtime of output_file, Absent if it does not exist
  \* build_typescript
  bt_last,       \* the last call: what it saw, what it decided, how it ended
  bt_launches,   \* the commands the last call handed to call_cli:
                 \* <<command, directory>>
  \* the pipeline (the statements of make.py after the definitions)
  pipe_pc,       \* the step to run next; Aborted after an exception
  pipe_log,      \* the steps started, in order
  pipe_results   \* per step that ended: "" or the exception it raised

cliVars == <<max_hang, max_time, expected_return_code, exitAt, exitCode,
             written, proc, now, absolute_end, hang_end, last_stdout_len,
             last_stderr_len, printed_stdout_lines, printed_stderr_lines,
             done, returncode, outcome, exc_args, console, tickLog>>
fsVars  == <<dirs, files, outputMtime>>
btVars  == <<bt_last, bt_launches>>
pipeVars == <<pipe_pc, pipe_log, pipe_results>>
vars    == <<cliVars, fsVars, btVars, pipeVars>>

\* ------------------------------------------------------- string helpers
\* The characters written to one stream, in order (what communicate captured).
RECURSIVE StreamOf(_, _)
StreamOf(w, s) ==
  IF w = <<>> THEN <<>>
  ELSE (IF Head(w)[1] = s THEN <<Head(w)[2]>> ELSE <<>>) \o StreamOf(Tail(w), s)

\* str.split("\n"): the pieces between newlines; one more piece than newlines.
RECURSIVE SplitAcc(_, _)
SplitAcc(str, cur) ==
  IF str = <<>> THEN <<cur>>
  ELSE IF Head(str) = NL THEN <<cur>> \o SplitAcc(Tail(str), <<>>)
       ELSE SplitAcc(Tail(str), Append(cur, Head(str)))

Split(str) == SplitAcc(str, <<>>)

\* lines[printed:-1] of Python, for 0 <= printed.
SliceToLast(lines, printed) == SubSeq(lines, printed + 1, Len(lines) - 1)

\* for line in lines: print(f"TAG > {line}")
PrintLines(tag, lines, batch) ==
  [i \in 1..Len(lines) |-> <<tag, lines[i], batch>>]

\* print("")
BlankLine(batch) == <<"", <<>>, batch>>

\* ------------------------------------------------------------ call_cli
Failures == {"CommandHung", "CommandTimeout", "WrongReturnCode"}

\* The captured streams: None (here the empty sequence) while nothing was read.
Stdout == StreamOf(written, "out")
Stderr == StreamOf(written, "err")

UpdatedOnNewline(stream, last_len) ==
  stream # <<>> /\ Len(stream) > last_len /\ stream[Len(stream)] = NL

\* stdout_updated = stdout and len(stdout) > last_stdout_len
Updated(stream, last_len) == stream # <<>> /\ Len(stream) > last_len

\* The lines one poll tick prints for one stream that grew.
TickLines(stream, printed_lines) == SliceToLast(Split(stream), printed_lines)

\* printed_stdout_lines = len(lines)
PrintedAfterTick(stream) == Len(Split(stream))

TickOutputStderrFirst(out, err, outUpd, errUpd, pOut, pErr, batch) ==
  (IF errUpd THEN PrintLines("STDERR", TickLines(err, pErr), batch) ELSE <<>>)
  \o (IF outUpd THEN PrintLines("STDOUT", TickLines(out, pOut), batch) ELSE <<>>)

\* What one poll tick prints: the new stdout lines, then the new stderr lines.
TickOutput(out, err, outUpd, errUpd, pOut, pErr, batch) ==
  (IF outUpd THEN PrintLines("STDOUT", TickLines(out, pOut), batch) ELSE <<>>)
  \o (IF errUpd THEN PrintLines("STDERR", TickLines(err, pErr), batch) ELSE <<>>)

\* Lines 79-84, the check at the end of a poll tick:
\*   if updated: hang_end = ...  elif now > hang_end: raise CommandHung
\*   if now > absolute_end: raise CommandTimeout
\* The name of the exception raised, or "running" when polling goes on.
TickRaisesNoHang(updated, t, he, ae) ==
  IF t > ae THEN "CommandTimeout" ELSE "running"

TickRaisesElif(updated, t, he, ae) ==
  IF updated THEN "running"
  ELSE IF t > he THEN "CommandHung"
  ELSE IF t > ae THEN "CommandTimeout" ELSE "running"

TickRaisesImpatient(updated, t, he, ae) ==
  IF ~updated THEN "CommandHung"
  ELSE IF t > ae THEN "CommandTimeout" ELSE "running"

TickRaisesTimeoutFirst(updated, t, he, ae) ==
  IF t > ae THEN "CommandTimeout"
  ELSE IF ~updated /\ t > he THEN "CommandHung" ELSE "running"

TickRaisesNoTimeout(updated, t, he, ae) ==
  IF ~updated /\ t > he THEN "CommandHung" ELSE "running"

TickRaises(updated, t, he, ae) ==
  IF ~updated /\ t > he THEN "CommandHung"
  ELSE IF t > ae THEN "CommandTimeout" ELSE "running"

NewHangEndAlways(updated, t, he, mh) == t + mh

\* if stdout_updated or stderr_updated: hang_end = now + max_hang
NewHangEnd(updated, t, he, mh) == IF updated THEN t + mh ELSE he

\* What the final flush prints once the child has completed.
FlushOutput(out, err, pOut, pErr, batch) ==
  PrintLines("STDOUT", SliceToLast(Split(out), pOut), batch)
  \o PrintLines("STDERR", SliceToLast(Split(err), pErr), batch)

WrongCodeNoneChecked(expected, actual) ==
  expected = None \/ actual # expected[1]

\* if expected_return_code is not None and process.returncode != expected_return_code
WrongCode(expected, actual) == expected # None /\ actual # expected[1]

FinallyNoKill(d, p) == p

\* finally: if not done: process.kill()
Finally(d, p) == IF ~d /\ p = "running" THEN "killed" ELSE p

ChildAlive == proc = "running" /\ (exitAt = Never \/ exitAt > now)

\* The child writes one character to one of its streams.
Write(s, c) ==
  /\ outcome = "running"
  /\ ChildAlive
  /\ Len(written) < MaxOut
  /\ written' = Append(written, <<s, c>>)
  /\ UNCHANGED <<max_hang, max_time, expected_return_code, exitAt, exitCode,
                 proc, now, absolute_end, hang_end, last_stdout_len,
                 last_stderr_len, printed_stdout_lines, printed_stderr_lines,
                 done, returncode, outcome, exc_args, console, tickLog>>
  /\ UNCHANGED <<fsVars, btVars, pipeVars>>

\* communicate(timeout=2.0) raises TimeoutExpired: one poll tick.
Tick ==
  /\ outcome = "running"
  /\ exitAt = Never \/ exitAt > now + PollInterval
  /\ LET t       == now + PollInterval
         batch   == Len(tickLog) + 1
         outUpd  == Updated(Stdout, last_stdout_len)
         errUpd  == Updated(Stderr, last_stderr_len)
         updated == outUpd \/ errUpd
         lines   == TickOutput(Stdout, Stderr, outUpd, errUpd,
                               printed_stdout_lines, printed_stderr_lines, batch)
         raised  == TickRaises(updated, t, hang_end, absolute_end)
         hung    == raised = "CommandHung"
         timeout == raised = "CommandTimeout"
     IN /\ now' = t
        /\ tickLog' = Append(tickLog,
                             [at |-> t, out |-> Len(Stdout), err |-> Len(Stderr)])
        /\ printed_stdout_lines' =
             IF outUpd THEN PrintedAfterTick(Stdout) ELSE printed_stdout_lines
        /\ last_stdout_len' = IF outUpd THEN Len(Stdout) ELSE last_stdout_len
        /\ printed_stderr_lines' =
             IF errUpd THEN PrintedAfterTick(Stderr) ELSE printed_stderr_lines
        /\ last_stderr_len' = IF errUpd THEN Len(Stderr) ELSE last_stderr_len
        /\ hang_end' = NewHangEnd(updated, t, hang_end, max_hang)
        /\ outcome' = raised
        /\ exc_args' = IF hung THEN <<max_hang, t>>
                       ELSE IF timeout THEN <<max_time>> ELSE exc_args
        /\ console' = console \o lines
                      \o (IF hung \/ timeout THEN <<BlankLine(batch)>> ELSE <<>>)
        /\ proc' = IF hung \/ timeout THEN Finally(done, proc) ELSE proc
  /\ UNCHANGED <<max_hang, max_time, expected_return_code, exitAt, exitCode,
                 written, absolute_end, done, returncode>>
  /\ UNCHANGED <<fsVars, btVars, pipeVars>>

\* communicate returns: the child completed; flush, then check the exit code.
Complete ==
  /\ outcome = "running"
  /\ exitAt # Never /\ exitAt <= now + PollInterval
  /\ LET batch == Len(tickLog) + 1
         wrong == WrongCode(expected_return_code, exitCode)
     IN /\ console' = console
                      \o FlushOutput(Stdout, Stderr, printed_stdout_lines,
                                     printed_stderr_lines, batch)
                      \o (IF wrong THEN <<BlankLine(batch)>> ELSE <<>>)
        /\ done' = TRUE
        /\ returncode' = <<exitCode>>
        /\ outcome' = IF wrong THEN "WrongReturnCode" ELSE "returned"
        /\ exc_args' = IF wrong THEN <<expected_return_code, <<exitCode>>>> ELSE exc_args
        /\ proc' = Finally(TRUE, "exited")
  /\ UNCHANGED <<max_hang, max_time, expected_return_code, exitAt, exitCode,
                 written, now, absolute_end, hang_end, last_stdout_len,
                 last_stderr_len, printed_stdout_lines, printed_stderr_lines,
                 tickLog>>
  /\ UNCHANGED <<fsVars, btVars, pipeVars>>

\* An exception that is none of call_cli's own is raised while polling
\* (KeyboardInterrupt during the wait): except prints "", finally kills.
PollException ==
  /\ outcome = "running"
  /\ ChildAlive
  /\ outcome' = "OtherException"
  /\ console' = Append(console, BlankLine(Len(tickLog) + 1))
  /\ proc' = Finally(done, proc)
  /\ UNCHANGED <<max_hang, max_time, expected_return_code, exitAt, exitCode,
                 written, now, absolute_end, hang_end, last_stdout_len,
                 last_stderr_len, printed_stdout_lines, printed_stderr_lines,
                 done, returncode, exc_args, tickLog>>
  /\ UNCHANGED <<fsVars, btVars, pipeVars>>

CliInit ==
  /\ max_hang \in HangLimits
  /\ max_time \in TimeLimits
  /\ expected_return_code \in Expectations
  /\ exitAt \in {Never} \cup (1..MaxExit)
  /\ exitCode \in ExitCodes
  /\ written = <<>>
  /\ proc = "running"
  /\ now = 0
  /\ absolute_end = 0 + max_time
  /\ hang_end = 0 + max_hang
  /\ last_stdout_len = 0 /\ last_stderr_len = 0
  /\ printed_stdout_lines = 0 /\ printed_stderr_lines = 0
  /\ done = FALSE
  /\ returncode = None
  /\ outcome = "running"
  /\ exc_args = <<>>
  /\ console = <<>>
  /\ tickLog = <<>>

NoCall == [called |-> FALSE]

FsIdle ==
  /\ dirs = {Root}
  /\ files = [d \in Dirs |-> Absent]
  /\ outputMtime = Absent
  /\ bt_last = NoCall
  /\ bt_launches = <<>>

\* The pipeline is not under way.
PipeIdle ==
  /\ pipe_pc = 0
  /\ pipe_log = <<>>
  /\ pipe_results = <<>>

Init == CliInit /\ FsIdle /\ PipeIdle

Next ==
  \/ \E s \in Streams, c \in Chars : Write(s, c)
  \/ Tick
  \/ Complete
  \/ PollException

Spec == Init /\ [][Next]_vars

\* The wait on the child is bounded, so a poll tick or the completion always
\* comes.
FairSpec == Spec /\ WF_vars(Tick) /\ WF_vars(Complete)

\* ------------------------------------------------- properties of call_cli
Terminal == outcome # "running"
Silent   == written = <<>>

\* The lines of a stream that the child terminated with a newline.
CompleteLines(str) == SliceToLast(Split(str), 0)

\* All the lines of a stream, a trailing one without newline included.
AllLines(str) ==
  IF str # <<>> /\ str[Len(str)] # NL THEN Split(str) ELSE CompleteLines(str)

IsTagged(e) == e[1] \in {"STDOUT", "STDERR"}
TaggedConsole == SelectSeq(console, IsTagged)

\* The lines printed with one tag, in the order printed.
IsStdoutEntry(e) == e[1] = "STDOUT"
IsStderrEntry(e) == e[1] = "STDERR"
LinesOf(entries) == [i \in 1..Len(entries) |-> entries[i][2]]
PrintedStdout == LinesOf(SelectSeq(console, IsStdoutEntry))
PrintedStderr == LinesOf(SelectSeq(console, IsStderrEntry))

\* a is b with some elements left out.
RECURSIVE IsSubseq(_, _)
IsSubseq(a, b) ==
  IF a = <<>> THEN TRUE
  ELSE IF b = <<>> THEN FALSE
  ELSE IF Head(a) = Head(b) THEN IsSubseq(Tail(a), Tail(b))
       ELSE IsSubseq(a, Tail(b))

\* The complete lines of both streams, tagged, in the order their newlines
\* were written.
RECURSIVE ArrivalAcc(_, _, _)
ArrivalAcc(w, curOut, curErr) ==
  IF w = <<>> THEN <<>>
  ELSE LET s == Head(w)[1]
           c == Head(w)[2]
       IN IF s = "out"
          THEN IF c = NL THEN <<<<"STDOUT", curOut>>>> \o ArrivalAcc(Tail(w), <<>>, curErr)
               ELSE ArrivalAcc(Tail(w), Append(curOut, c), curErr)
          ELSE IF c = NL THEN <<<<"STDERR", curErr>>>> \o ArrivalAcc(Tail(w), curOut, <<>>)
               ELSE ArrivalAcc(Tail(w), curOut, Append(curErr, c))

ArrivalLines == ArrivalAcc(written, <<>>, <<>>)

\* What the poll ticks truly saw: did a stream grow between tick i-1 and i.
GrewAt(i) ==
  LET prevOut == IF i = 1 THEN 0 ELSE tickLog[i - 1].out
      prevErr == IF i = 1 THEN 0 ELSE tickLog[i - 1].err
  IN tickLog[i].out > prevOut \/ tickLog[i].err > prevErr

\* The time of the last tick up to tick i that saw growth; the start if none.
RECURSIVE LastGrowthAt(_)
LastGrowthAt(i) ==
  IF i = 0 THEN 0
  ELSE IF GrewAt(i) THEN tickLog[i].at ELSE LastGrowthAt(i - 1)

AllTicksGrew == \A i \in 1..Len(tickLog) : GrewAt(i)

\* No tick came max_hang or more after the last growth seen (or the start).
TickQuiet ==
  \A i \in 1..Len(tickLog) : tickLog[i].at - LastGrowthAt(i) < max_hang

\* The first poll tick that falls after h seconds.
FirstTickAfter(h) == PollInterval * ((h \div PollInterval) + 1)

CodeAsExpected == ~WrongCode(expected_return_code, exitCode)

\* C1: a command that completes within max_time, is seen to produce output
\* at every poll tick (max_hang above the poll interval) and exits with the
\* expected code makes call_cli return, with every line it wrote printed
\* exactly once, in order within its stream, under its stream's tag.
C1_EveryLinePrintedOnce ==
  (/\ Terminal /\ outcome # "OtherException"
   /\ exitAt # Never /\ exitAt <= max_time
   /\ max_hang > PollInterval /\ AllTicksGrew
   /\ CodeAsExpected)
  => /\ outcome = "returned"
     /\ PrintedStdout = CompleteLines(Stdout)
     /\ PrintedStderr = CompleteLines(Stderr)

\* C2: on every exit path the child is not left running: it completed by
\* itself or it was killed; after CommandHung or CommandTimeout it is killed.
C2_NoChildLeftRunning ==
  Terminal =>
    /\ proc # "running"
    /\ (~done => proc = "killed")
    /\ (done => proc = "exited")
    /\ (outcome \in {"CommandHung", "CommandTimeout", "OtherException"}
          => proc = "killed")

C2_Witness ==
  /\ outcome = "CommandTimeout" /\ proc = "killed" /\ written # <<>>

\* C3 as stated: a silent command that exits successfully after more than
\* max_hang seconds makes call_cli raise CommandHung (max_time > max_hang).
C3_Original ==
  (/\ Terminal /\ outcome # "OtherException"
   /\ Silent /\ exitAt # Never /\ exitAt > max_hang /\ exitCode = 0
   /\ max_time > max_hang)
  => outcome = "CommandHung"

\* C3 amended: a silent command that is still running at the first poll tick
\* after max_hang seconds makes call_cli raise CommandHung, at that tick, and
\* neither return nor raise CommandTimeout (max_time > max_hang).
C3_HungAtFirstTickAfter ==
  (/\ Silent /\ max_time > max_hang
   /\ outcome # "OtherException"
   /\ exitAt = Never \/ exitAt > FirstTickAfter(max_hang))
  => /\ outcome \in {"running", "CommandHung"}
     /\ outcome = "running" => now < FirstTickAfter(max_hang)
     /\ outcome = "CommandHung" =>
          /\ now = FirstTickAfter(max_hang)
          /\ exc_args = <<max_hang, now>>

C3_Witness ==
  /\ outcome = "CommandHung" /\ Silent /\ exitAt # Never /\ exitCode = 0
  /\ max_time > max_hang /\ Len(tickLog) >= 1

\* C4: a command that never exits and keeps producing output (no poll tick
\* comes max_hang after the last growth seen) never gets CommandHung; polling
\* never goes on after a tick later than absolute_end, also when that tick saw
\* growth; and call_cli eventually stops polling.
C4_TimeoutDespiteOutput ==
  /\ [](TickQuiet => outcome # "CommandHung")
  /\ [](outcome = "running" => now <= absolute_end)
  /\ [](outcome = "CommandTimeout" =>
          /\ now > absolute_end /\ now - PollInterval <= absolute_end
          /\ exc_args = <<max_time>>)
  /\ [](exitAt = Never /\ TickQuiet /\ Terminal
          => outcome \in {"CommandTimeout", "OtherException"})
  /\ (exitAt = Never => <>Terminal)

C4_Witness ==
  /\ outcome = "CommandTimeout" /\ exitAt = Never
  /\ Len(tickLog) >= 2 /\ AllTicksGrew

\* C5: after natural completion WrongReturnCode is raised, with the expected
\* and the actual code, exactly when a code is expected and the actual one
\* differs; with None expected every exit code is a success.
C5_WrongReturnCodeIff ==
  done =>
    /\ returncode = <<exitCode>>
    /\ outcome \in {"returned", "WrongReturnCode"}
    /\ outcome = "WrongReturnCode"
         <=> (expected_return_code # None /\ <<exitCode>> # expected_return_code)
    /\ outcome = "WrongReturnCode" => exc_args = <<expected_return_code, returncode>>
    /\ expected_return_code = None => outcome = "returned"

C5_Witness ==
  /\ outcome = "WrongReturnCode" /\ exitCode = 2 /\ expected_return_code = <<0>>

\* C6 as stated: the lines are printed in the order they were written, also
\* across the two streams.
C6_Original == IsSubseq([i \in 1..Len(TaggedConsole) |->
                           <<TaggedConsole[i][1], TaggedConsole[i][2]>>],
                        ArrivalLines)

\* C6 amended: within a stream the lines are printed in the order written;
\* across the streams they are grouped per poll tick (and final flush): the
\* lines of an earlier tick come before those of a later one, and within one
\* tick all STDOUT lines come before all STDERR lines.
C6_GroupedPerTick ==
  /\ IsSubseq(PrintedStdout, CompleteLines(Stdout))
  /\ IsSubseq(PrintedStderr, CompleteLines(Stderr))
  /\ \A i, j \in 1..Len(TaggedConsole) :
       i < j =>
         /\ TaggedConsole[i][3] <= TaggedConsole[j][3]
         /\ TaggedConsole[i][3] = TaggedConsole[j][3]
              => ~(TaggedConsole[i][1] = "STDERR" /\ TaggedConsole[j][1] = "STDOUT")

\* A stderr line was written before a stdout line and both are printed by
\* the same tick.
C6_Witness ==
  /\ Len(TaggedConsole) = 2
  /\ TaggedConsole[1][1] = "STDOUT" /\ TaggedConsole[2][1] = "STDERR"
  /\ TaggedConsole[1][3] = TaggedConsole[2][3]
  /\ Len(ArrivalLines) = 2 /\ ArrivalLines[1][1] = "STDERR"

\* C7: when call_cli raises one of its failures, everything captured from the
\* child has been printed, a trailing line without newline included.
C7_FailurePrintsAllCaptured ==
  outcome \in Failures =>
    /\ PrintedStdout = AllLines(Stdout)
    /\ PrintedStderr = AllLines(Stderr)

\* C10 as stated: a silent command that finishes with the expected code
\* before the absolute deadline is a success.
C10_Original ==
  (/\ Terminal /\ outcome # "OtherException"
   /\ Silent /\ exitAt # Never /\ exitAt < absolute_end
   /\ CodeAsExpected)
  => outcome = "returned"

\* C10 amended: a silent command that finishes with the expected code before
\* the absolute deadline and before the first poll tick after max_hang
\* seconds is a success; CommandHung is raised only at a poll tick at which
\* the child has not finished, no stream grew since the tick before, and more
\* than max_hang seconds passed since the start or the last growth seen.
C10_SilentSuccessAndHungOnly ==
  /\ (/\ Terminal /\ outcome # "OtherException"
      /\ Silent /\ exitAt # Never /\ exitAt < absolute_end
      /\ exitAt <= FirstTickAfter(max_hang)
      /\ CodeAsExpected)
     => outcome = "returned"
  /\ outcome = "CommandHung" =>
       LET i == Len(tickLog)
       IN /\ i >= 1
          /\ tickLog[i].at = now
          /\ ~GrewAt(i)
          /\ now > LastGrowthAt(i) + max_hang
          /\ hang_end = LastGrowthAt(i) + max_hang
          /\ exitAt = Never \/ exitAt > now
          /\ ~done

C10_Witness ==
  /\ outcome = "returned" /\ Silent /\ Len(tickLog) >= 1
  /\ exitAt > max_hang /\ expected_return_code # None

C10_WitnessHung ==
  /\ outcome = "CommandHung" /\ ~Silent /\ Len(tickLog) >= 2

\* ---------------------------------------- more properties of call_cli
LastTickQuiet == Len(tickLog) >= 1 /\ ~GrewAt(Len(tickLog))

\* C12: an invocation ends in one outcome, which then stays; a poll tick at
\* which the child has not finished and no stream grew raises CommandHung if
\* now > hang_end (also when now > absolute_end), else CommandTimeout if
\* now > absolute_end, else polling goes on; WrongReturnCode is raised only
\* after natural completion.
C12_ChecksOrdered ==
  [][/\ Terminal => outcome' = outcome
     /\ outcome' \in {"running", "returned", "OtherException"} \cup Failures
     /\ outcome' = "WrongReturnCode" => done' /\ proc' = "exited"
     /\ (tickLog' # tickLog /\ LastTickQuiet') =>
          outcome' = IF now' > hang_end THEN "CommandHung"
                     ELSE IF now' > absolute_end THEN "CommandTimeout"
                     ELSE "running"]_vars

\* A quiet tick that is past both deadlines raised CommandHung.
C12_Witness ==
  /\ outcome = "CommandHung" /\ now > absolute_end
  /\ Len(tickLog) >= 2 /\ LastTickQuiet /\ tickLog[Len(tickLog)].at = now

\* The moment call_cli returned or raised.
EndTime == IF done THEN exitAt ELSE now

\* C13: call_cli always terminates, no later than one poll interval after
\* absolute_end, whatever the child does; a child still running past a
\* deadline is detected at most one poll interval late.
C13_AlwaysTerminates ==
  /\ <>Terminal
  /\ [](~Terminal => now <= absolute_end /\ now <= hang_end)
  /\ [](Terminal => EndTime <= absolute_end + PollInterval)
  /\ [](outcome = "CommandHung" => now <= hang_end + PollInterval)

\* A child that never exits and is seen to write at every tick.
C13_Witness ==
  /\ Terminal /\ exitAt = Never /\ AllTicksGrew /\ Len(tickLog) >= 2
  /\ now = absolute_end + 1 /\ Len(written) >= 2

\* C14: on natural completion every line not yet printed is printed, from
\* both streams, a trailing line without newline included, also when
\* WrongReturnCode is then raised.
C14_FlushPrintsEveryLine ==
  done =>
    /\ PrintedStdout = AllLines(Stdout)
    /\ PrintedStderr = AllLines(Stderr)


\* What a stream held when n characters of it were captured.
Captured(stream, n) == SubSeq(stream, 1, n)

\* The captured part ends in a line that is not yet terminated, and the child
\* has terminated that line since.
PartialThenComplete(stream, n) ==
  /\ n > 0 /\ stream[n] # NL
  /\ Len(Split(Captured(stream, n))) <= Len(CompleteLines(stream))

\* The line that was incomplete when n characters were captured, in full.
LineCompleted(stream, n) == CompleteLines(stream)[Len(Split(Captured(stream, n)))]

\* C15: a poll tick prints complete lines only, never the trailing part that
\* has no newline yet; a line that was incomplete at a tick is printed in full
\* at a later tick or at the final flush once it is complete.
C15_PartialLinePrintedLater ==
  /\ IsSubseq(PrintedStdout, CompleteLines(Stdout))
  /\ IsSubseq(PrintedStderr, CompleteLines(Stderr))
  /\ done =>
       \A i \in 1..Len(tickLog) :
         /\ PartialThenComplete(Stdout, tickLog[i].out) =>
              \E j \in 1..Len(PrintedStdout) :
                PrintedStdout[j] = LineCompleted(Stdout, tickLog[i].out)
         /\ PartialThenComplete(Stderr, tickLog[i].err) =>
              \E j \in 1..Len(PrintedStderr) :
                PrintedStderr[j] = LineCompleted(Stderr, tickLog[i].err)

\* A stream is longer than the length last observed.
GrewSinceObserved ==
  Len(Stdout) > last_stdout_len \/ Len(Stderr) > last_stderr_len

\* C16: absolute_end is fixed at the start (start + max_time) and no step
\* changes it; hang_end changes only at a poll tick at which a stream grew
\* since its last observed length, and is then that tick's time plus
\* max_hang; a tick without growth leaves both deadlines and both observed
\* lengths as they were.
C16_DeadlinesFrame ==
  [][/\ absolute_end = 0 + max_time
     /\ absolute_end' = absolute_end
     /\ hang_end' # hang_end => tickLog' # tickLog /\ GrewSinceObserved
     /\ (tickLog' # tickLog /\ GrewSinceObserved) =>
          /\ hang_end' = now' + max_hang
          /\ last_stdout_len' = Len(Stdout) /\ last_stderr_len' = Len(Stderr)
     /\ (tickLog' # tickLog /\ ~GrewSinceObserved) =>
          /\ hang_end' = hang_end
          /\ last_stdout_len' = last_stdout_len
          /\ last_stderr_len' = last_stderr_len
     /\ tickLog' = tickLog =>
          /\ last_stdout_len' = last_stdout_len
          /\ last_stderr_len' = last_stderr_len]_vars

\* A tick without growth, then a tick with growth that moved hang_end.
C16_Witness ==
  /\ outcome = "running" /\ Len(tickLog) = 2 /\ ~GrewAt(1) /\ GrewAt(2)
  /\ hang_end = now + max_hang /\ absolute_end = max_time

\* The outcome worked out from the times and lengths the poll ticks saw, the
\* completion and the exit code alone: from tick i on, with he the hang
\* deadline in force.
RECURSIVE Replay(_, _)
Replay(i, he) ==
  IF i > Len(tickLog)
  THEN IF ~done THEN "running"
       ELSE IF WrongCode(expected_return_code, exitCode) THEN "WrongReturnCode"
       ELSE "returned"
  ELSE LET t == tickLog[i].at
       IN IF ~GrewAt(i) /\ t > he THEN "CommandHung"
          ELSE IF t > 0 + max_time THEN "CommandTimeout"
          ELSE Replay(i + 1, IF GrewAt(i) THEN t + max_hang ELSE he)

NoNewlineWritten == \A i \in 1..Len(written) : written[i][2] # NL

RECURSIVE Walk(_, _), WalkAll(_, _)
Walk(d, existing) ==
  LET Exists(c) == c \in existing
  IN <<d>> \o WalkAll(SelectSeq(Children(d), Exists), existing)

WalkAll(ds, existing) ==
  IF ds = <<>> THEN <<>>
  ELSE Walk(Head(ds), existing) \o WalkAll(Tail(ds), existing)

WalkTopOnly(d, existing) == <<d>>

\* The directories the loop of build_typescript visits.
Walked(d, existing) == Walk(d, existing)

\* directory_changed_times: getmtime of every file of every walked directory.
RECURSIVE ChangedTimes(_, _)
ChangedTimes(walk, fl) ==
  IF walk = <<>> THEN <<>>
  ELSE (IF fl[Head(walk)] # Absent THEN <<fl[Head(walk)]>> ELSE <<>>)
       \o ChangedTimes(Tail(walk), fl)

\* max(list) of a list that is not empty.
RECURSIVE MaxOf(_)
MaxOf(seq) ==
  IF Len(seq) = 1 THEN seq[1]
  ELSE LET m == MaxOf(Tail(seq)) IN IF Head(seq) > m THEN Head(seq) ELSE m

IsNewerOrSame(directory_changed_time, output_file_changed_time) ==
  directory_changed_time >= output_file_changed_time

\* should_build = (directory_changed_time > output_file_changed_time)
IsNewer(directory_changed_time, output_file_changed_time) ==
  directory_changed_time > output_file_changed_time

LaunchesAlways(should_build, directory) == <<<<"tsc --pretty", directory>>>>

\* if should_build: call_cli("tsc --pretty", directory=directory)
Launches(should_build, directory) ==
  IF should_build THEN <<<<"tsc --pretty", directory>>>> ELSE <<>>

\* How the file system changed since the call before, as far as the deepest
\* file is concerned.
SincePrev(prev) ==
  IF ~prev.called THEN "first"
  ELSE IF prev.dirs = dirs /\ prev.files = files /\ prev.out = outputMtime
       THEN "same"
  ELSE IF /\ prev.dirs = dirs /\ prev.out = outputMtime
          /\ outputMtime # Absent
          /\ Deep \in dirs
          /\ prev.files[Deep] # Absent
          /\ files = [prev.files EXCEPT ![Deep] = files[Deep]]
          /\ files[Deep] > outputMtime
       THEN "deepTouched"
  ELSE "other"

\* build_typescript(Root, output_file).  The loop variable of the walk is the
\* parameter directory itself, so after a walk directory is the directory
\* walked last.  cli is how the call_cli it may make ends.
BuildTypescript(cli) ==
  LET outputExists == outputMtime # Absent
      walk   == Walked(Root, dirs)
      times  == ChangedTimes(walk, files)
      directory == IF outputExists THEN walk[Len(walk)] ELSE Root
      seen   == [called |-> TRUE, dirs |-> dirs, files |-> files,
                 out |-> outputMtime,
                 prevKnown |-> bt_last.called,
                 prevShould |-> IF bt_last.called THEN bt_last.should_build
                                ELSE FALSE,
                 prevRaised |-> IF bt_last.called THEN bt_last.raised ELSE "",
                 sincePrev |-> SincePrev(bt_last),
                 should_build |-> TRUE, raised |-> "", returned |-> FALSE]
  IN IF outputExists /\ times = <<>>
     THEN \* max() of an empty list
          /\ cli = "none"
          /\ bt_last' = [seen EXCEPT !.should_build = TRUE,
                                    !.raised = "ValueError",
                                    !.returned = FALSE]
          /\ bt_launches' = <<>>
     ELSE LET should_build == IF outputExists
                              THEN IsNewer(MaxOf(times), outputMtime)
                              ELSE TRUE
          IN /\ cli = IF should_build THEN cli ELSE "none"
             /\ should_build => cli \in {"returned", "raised"}
             /\ bt_last' = [seen EXCEPT !.should_build = should_build,
                                       !.raised = IF cli = "raised"
                                                  THEN "call_cli" ELSE "",
                                       !.returned = (cli # "raised")]
             /\ bt_launches' = Launches(should_build, directory)

CallBuildTypescript ==
  /\ \E cli \in {"none", "returned", "raised"} : BuildTypescript(cli)
  /\ UNCHANGED <<pipeVars, cliVars, fsVars>>

\* The file system changes between the calls; the directories stay.
Touch(d, t) ==
  /\ d \in dirs
  /\ files[d] # t
  /\ files' = [files EXCEPT ![d] = t]
  /\ UNCHANGED <<pipeVars, cliVars, dirs, outputMtime, btVars>>

RemoveFile(d) ==
  /\ files[d] # Absent
  /\ files' = [files EXCEPT ![d] = Absent]
  /\ UNCHANGED <<pipeVars, cliVars, dirs, outputMtime, btVars>>

TouchOutput(t) ==
  /\ outputMtime # t
  /\ outputMtime' = t
  /\ UNCHANGED <<pipeVars, cliVars, dirs, files, btVars>>

RemoveOutput ==
  /\ outputMtime # Absent
  /\ outputMtime' = Absent
  /\ UNCHANGED <<pipeVars, cliVars, dirs, files, btVars>>

\* No call_cli of the caller's own is under way.
CliIdle ==
  /\ max_hang = 1 /\ max_time = 1 /\ expected_return_code = None
  /\ exitAt = Never /\ exitCode = 0
  /\ written = <<>>
  /\ proc = "none"
  /\ now = 0 /\ absolute_end = 0 /\ hang_end = 0
  /\ last_stdout_len = 0 /\ last_stderr_len = 0
  /\ printed_stdout_lines = 0 /\ printed_stderr_lines = 0
  /\ done = FALSE
  /\ returncode = None
  /\ outcome = "none"
  /\ exc_args = <<>>
  /\ console = <<>>
  /\ tickLog = <<>>

InitTS ==
  /\ CliIdle
  /\ dirs \in TreeShapes
  /\ files \in [Dirs -> {Absent} \cup Mtimes]
  /\ \A d \in Dirs \ dirs : files[d] = Absent
  /\ outputMtime \in {Absent} \cup Mtimes
  /\ bt_last = NoCall
  /\ bt_launches = <<>>
  /\ PipeIdle

NextTS ==
  \/ CallBuildTypescript
  \/ \E d \in Dirs, t \in Mtimes : Touch(d, t)
  \/ \E d \in Dirs : RemoveFile(d)
  \/ \E t \in Mtimes : TouchOutput(t)
  \/ RemoveOutput

SpecTS == InitTS /\ [][NextTS]_vars

\* ------------------------------------------------------------ the pipeline
\* The statements of make.py below the definitions, run top to bottom when
\* the script is started.
Steps == <<"test", "compile-native", "compile-typed-source",
           "fetch-test-assets", "compile-tests", "serve">>

\* How a call_cli of the pipeline can end: it returns or raises.
CliEndings == {"returned"} \cup Failures

AfterStepIgnoreFailure(pc, raised) == pc + 1

\* An exception that no statement catches ends the script: no step is next
\* (0); else the statements that follow run.
AfterStep(pc, raised) == IF raised # "" THEN 0 ELSE pc + 1

\* The step at pipe_pc was started and ended, raising or not.
EndStep(raised) ==
  /\ pipe_log' = Append(pipe_log, Steps[pipe_pc])
  /\ pipe_results' = Append(pipe_results, raised)
  /\ pipe_pc' = AfterStep(pipe_pc, raised)

\* call_cli("RUST_BACKTRACE=1 cargo test --color=always", ..., max_hang=15.0)
RunRustTests ==
  /\ pipe_pc = 1
  /\ \E o \in CliEndings : EndStep(IF o = "returned" THEN "" ELSE o)
  /\ UNCHANGED <<cliVars, fsVars, btVars>>

\* call_cli("wasm-pack build ..."), then the results are copied out, which
\* fails with an OSError when one is missing.
CompileRustToWasm ==
  /\ pipe_pc = 2
  /\ \E o \in CliEndings \cup {"OSError"} :
       EndStep(IF o = "returned" THEN "" ELSE o)
  /\ UNCHANGED <<cliVars, fsVars, btVars>>

\* if build_typescript(TYPESCRIPT_DIRECTORY, ...): shutil.move(...)
CompileTypeScript ==
  /\ pipe_pc = 3
  /\ \E cli \in {"none", "returned", "raised"} : BuildTypescript(cli)
  /\ \E move \in {"", "OSError"} :
       EndStep(IF bt_last'.raised # "" THEN bt_last'.raised
               ELSE IF bt_last'.should_build THEN move ELSE "")
  /\ UNCHANGED <<cliVars, fsVars>>

\* The three download() calls: a file that is missing is fetched, which can
\* fail.  The last one puts qunit.d.ts into TEST_DIRECTORY.  From here on the
\* tree stands for TEST_DIRECTORY and the output for the tests' output file,
\* whatever they hold; the file of Root stands for qunit.d.ts.
FetchTestAssets ==
  /\ pipe_pc = 4
  /\ \E o \in {"", "URLError"} :
       /\ EndStep(o)
       /\ IF o = ""
          THEN /\ dirs' \in TreeShapes
               /\ files' \in [Dirs -> {Absent} \cup Mtimes]
               /\ \A d \in Dirs \ dirs' : files'[d] = Absent
               /\ files'[Root] # Absent
               /\ outputMtime' \in {Absent} \cup Mtimes
          ELSE UNCHANGED fsVars
  /\ UNCHANGED <<cliVars, btVars>>

\* build_typescript(TEST_DIRECTORY, ...)
CompileTypeScriptTests ==
  /\ pipe_pc = 5
  /\ \E cli \in {"none", "returned", "raised"} : BuildTypescript(cli)
  /\ EndStep(bt_last'.raised)
  /\ UNCHANGED <<cliVars, fsVars>>

\* server.run_server(): serves until the script is stopped.
RunServer ==
  /\ pipe_pc = 6
  /\ pipe_log' = Append(pipe_log, Steps[pipe_pc])
  /\ pipe_pc' = 0
  /\ UNCHANGED <<cliVars, fsVars, btVars, pipe_results>>

InitPipe ==
  /\ CliIdle
  /\ dirs \in TreeShapes
  /\ files \in [Dirs -> {Absent} \cup Mtimes]
  /\ \A d \in Dirs \ dirs : files[d] = Absent
  /\ outputMtime \in {Absent} \cup Mtimes
  /\ bt_last = NoCall
  /\ bt_launches = <<>>
  /\ pipe_pc = 1
  /\ pipe_log = <<>>
  /\ pipe_results = <<>>

NextPipe ==
  \/ RunRustTests
  \/ CompileRustToWasm
  \/ CompileTypeScript
  \/ FetchTestAssets
  \/ CompileTypeScriptTests
  \/ RunServer

SpecPipe == InitPipe /\ [][NextPipe]_vars

\* ----------------------------------------- properties of build_typescript
\* The modification times of all the files under the directory the call saw,
\* at whatever depth.
MtimesUnder(call) == {call.files[d] : d \in call.dirs} \ {Absent}

\* C8: the decision is true when output_file does not exist; when it exists
\* (and there is a file under directory) the decision is true exactly when
\* the newest file under directory, at any depth, is strictly newer than
\* output_file.
C8_StaleIffNewestIsNewer ==
  bt_last.called =>
    /\ bt_last.out = Absent =>
         bt_last.should_build /\ bt_last.raised # "ValueError"
    /\ (bt_last.out # Absent /\ MtimesUnder(bt_last) # {}) =>
         /\ bt_last.raised # "ValueError"
         /\ bt_last.should_build
              <=> (\E m \in MtimesUnder(bt_last) : m > bt_last.out)
         /\ (\A m \in MtimesUnder(bt_last) : m <= bt_last.out)
              => ~bt_last.should_build
         /\ bt_last.returned => bt_last.raised = ""

\* Only the deepest file is newer than the output, and the call says stale.
C8_Witness ==
  /\ bt_last.called /\ bt_last.out # Absent
  /\ bt_last.files[Deep] > bt_last.out
  /\ bt_last.files[Root] # Absent /\ bt_last.files[Root] <= bt_last.out
  /\ bt_last.files[Sub] # Absent /\ bt_last.files[Sub] <= bt_last.out
  /\ bt_last.should_build

\* Every file is exactly as old as the output, and the call says not stale.
C8_WitnessSameAge ==
  /\ bt_last.called /\ bt_last.out # Absent
  /\ MtimesUnder(bt_last) = {bt_last.out}
  /\ ~bt_last.should_build

\* C9: after a call that returned false, touching only the deepest file to a
\* time after output_file's makes the next call decide true; and a call on
\* the metadata the call before saw decides what that call decided.
C9_NoStateBetweenCalls ==
  (bt_last.called /\ bt_last.prevKnown) =>
    /\ (/\ bt_last.sincePrev = "deepTouched"
        /\ ~bt_last.prevShould /\ bt_last.prevRaised = "")
       => bt_last.should_build /\ bt_last.raised # "ValueError"
    /\ bt_last.sincePrev = "same"
       => /\ bt_last.should_build = bt_last.prevShould
          /\ (bt_last.raised = "ValueError") = (bt_last.prevRaised = "ValueError")

C9_Witness ==
  /\ bt_last.called /\ bt_last.prevKnown
  /\ bt_last.sincePrev = "deepTouched"
  /\ ~bt_last.prevShould /\ bt_last.prevRaised = ""
  /\ bt_last.should_build

\* C11: a directory without any file makes build_typescript fail with an
\* error, whether or not output_file exists: it returns nothing and launches
\* no command.
C11_EmptyDirectoryFails ==
  (bt_last.called /\ MtimesUnder(bt_last) = {}) =>
    /\ bt_last.raised # ""
    /\ ~bt_last.returned
    /\ bt_launches = <<>>

\* C17: the pipeline starts its steps in the order test, compile-native,
\* compile-typed-source, fetch-test-assets, compile-tests, serve; after a
\* step that raised (call_cli's or build_typescript's failure among them) no
\* later step is started; the server is started only after every earlier step
\* ended without failure.
C17_InOrderAbortOnFailure ==
  /\ Len(pipe_log) <= Len(Steps)
  /\ \A i \in 1..Len(pipe_log) : pipe_log[i] = Steps[i]
  /\ Len(pipe_results) <= Len(pipe_log)
  /\ \A i \in 1..Len(pipe_results) : i < Len(pipe_log) => pipe_results[i] = ""
  /\ (pipe_results # <<>> /\ pipe_results[Len(pipe_results)] # "") =>
       pipe_pc = 0 /\ Len(pipe_log) = Len(pipe_results)
  /\ (pipe_log # <<>> /\ pipe_log[Len(pipe_log)] = "serve") =>
       /\ Len(pipe_results) = Len(Steps) - 1
       /\ \A i \in 1..Len(pipe_results) : pipe_results[i] = ""
  /\ (Len(pipe_results) >= 5 /\ pipe_results[5] # "") =>
       pipe_results[5] = bt_last.raised

\* build_typescript's call_cli failed in compile-tests: the server is not
\* started.
C17_Witness ==
  /\ pipe_pc = 0 /\ Len(pipe_log) = 5 /\ pipe_log[5] = "compile-tests"
  /\ pipe_results[5] = "call_cli" /\ bt_last.raised = "call_cli"

\* The server was started.
C17_WitnessServe ==
  /\ Len(pipe_log) = 6 /\ pipe_log[6] = "serve"

\* C19: a call that reaches its decision launches the compile command, once,
\* exactly when the decision is true, launches nothing when it is false, and
\* when it returns it returns the decision (it returns unless the command it
\* launched failed).
C19_DecisionGatesCompile ==
  (bt_last.called /\ bt_last.raised # "ValueError") =>
    /\ bt_last.should_build <=> Len(bt_launches) = 1
    /\ ~bt_last.should_build => bt_launches = <<>>
    /\ Len(bt_launches) <= 1
    /\ \A i \in 1..Len(bt_launches) : bt_launches[i][1] = "tsc --pretty"
    /\ ~bt_last.should_build => bt_last.returned
    /\ bt_last.returned <=> bt_last.raised = ""
    /\ bt_last.should_build
         <=> (bt_last.out = Absent
              \/ \E m \in MtimesUnder(bt_last) : m > bt_last.out)

\* A call that found nothing newer than the output: no launch, returns false.
C19_Witness ==
  /\ bt_last.called /\ bt_last.out # Absent /\ MtimesUnder(bt_last) # {}
  /\ ~bt_last.should_build /\ bt_last.returned /\ bt_launches = <<>>

\* C20: the compile command runs in the directory the caller passed.
C20_RunsInDirectoryPassed ==
  \A i \in 1..Len(bt_launches) : bt_launches[i][2] = Root

====
